---- MODULE Spec2Model ----
(***************************************************************************)
(* ContrastScreen (src/unnamed/part_000) and the Camera frame watch        *)
(* (src/contrastvisor/camera.js) as a state machine.                       *)
(*                                                                         *)
(* One JavaScript callback is one action: the browser runs callbacks to    *)
(* completion on a single thread, so nothing interleaves inside render,    *)
(* onCameraFrame or canvasRef.                                             *)
(***************************************************************************)
EXTENDS Integers, Sequences, FiniteSets

(***************************************************************************)
(* Bounds of the model.                                                    *)
(***************************************************************************)
\* the animation-frame clock stops at this timestamp
MaxTime == 3
\* camera frames the video element delivers through requestVideoFrameCallback
MaxFrames == 2
\* animation-frame callbacks the environment may have outstanding
MaxRaf == 3
\* strengths the builder's valid outputs are drawn from
MaxGain == 2
\* requests of a scheduler test run
MaxRequests == 4
\* timestamps a scheduler test run draws from: 0..MaxStamp
MaxStamp == 2
\* the sums of a statistics test run are drawn from 0..MaxSum
MaxSum == 1
\* its sample counts from 2..MaxCount
MaxCount == 3
\* video nodes React mounts one after the other in a camera test run
MaxNodes == 3
\* frame callbacks that fire in a camera test run
MaxCallbacks == 4
\* times the stream effect runs in a camera test run
MaxStreams == 2

(***************************************************************************)
(* Numbers as JavaScript has them: a finite value, NaN, +Infinity or       *)
(* -Infinity.  <<"fin", v>>, <<"nan", 0>>, <<"inf", 1>>, <<"inf", -1>>.    *)
(***************************************************************************)
Fin(v) == <<"fin", v>>
NaN == <<"nan", 0>>
PosInf == <<"inf", 1>>
NegInf == <<"inf", -1>>

isNaN(e) == e[1] = "nan"
isFinite(e) == e[1] = "fin"

Sgn(e) == IF e[2] > 0 THEN 1 ELSE IF e[2] < 0 THEN -1 ELSE 0

Float == {"fin", "nan", "inf"} \X Int

\* IEEE multiplication: NaN absorbs, Infinity * 0 is NaN
FMul[a \in Float, b \in Float] ==
  IF isNaN(a) \/ isNaN(b) THEN NaN
  ELSE IF isFinite(a) /\ isFinite(b) THEN Fin(a[2] * b[2])
  ELSE IF Sgn(a) * Sgn(b) = 0 THEN NaN
  ELSE <<"inf", Sgn(a) * Sgn(b)>>

\* IEEE addition: NaN absorbs, Infinity + -Infinity is NaN
FAdd[a \in Float, b \in Float] ==
  IF isNaN(a) \/ isNaN(b) THEN NaN
  ELSE IF isFinite(a) /\ isFinite(b) THEN Fin(a[2] + b[2])
  ELSE IF isFinite(a) THEN b
  ELSE IF isFinite(b) THEN a
  ELSE IF a = b THEN a
  ELSE NaN

(***************************************************************************)
(* gl-matrix mat4: 16 numbers, column-major (element (row r, column c) at  *)
(* index 4*c + r, counted from 0; the tuples here count from 1).           *)
(***************************************************************************)
Idx == 1..16
At(m, r, c) == m[4 * c + r + 1]

\* mat4.create(): the identity
mat4create == [i \in Idx |-> IF (i - 1) % 5 = 0 THEN Fin(1) ELSE Fin(0)]

\* mat4.multiply(out, a, b): out = a * b
mat4multiply(a, b) ==
  [i \in Idx |->
     LET r == (i - 1) % 4
         c == (i - 1) \div 4
         t(k) == FMul[At(a, r, k), At(b, k, c)]
     IN FAdd[FAdd[t(0), t(1)], FAdd[t(2), t(3)]]]

\* a colour matrix scaling r, g, b by g
Scale(g) == [i \in Idx |-> IF i \in {1, 6, 11} THEN Fin(g)
                           ELSE IF i = 16 THEN Fin(1) ELSE Fin(0)]
\* m with the entry at index p replaced by e
Poke(m, p, e) == [i \in Idx |-> IF i = p THEN e ELSE m[i]]

AllFinite(m) == \A i \in Idx : isFinite(m[i])

(***************************************************************************)
(* Values the environment supplies.                                        *)
(***************************************************************************)
\* lastTimestamp before the first call (part_000:30): no timestamp equals it
undefined == -1

\* nextFrame.current when no frame is pending (null)
NoFrame == [id |-> 0, width |-> 0, height |-> 0]
\* lastFrame before any camera frame: the 1x1 placeholder (part_000:81-84)
Placeholder == [id |-> 0, width |-> 1, height |-> 1]
\* sizes a camera frame may have
Sizes == {<<4, 2>>}
Frame(n, sz) == [id |-> n, width |-> sz[1], height |-> sz[2]]

\* props.post: absent, or a finite matrix
NoPost == [on |-> FALSE, m |-> mat4create]
Posts == {NoPost, [on |-> TRUE, m |-> Poke(mat4create, 1, Fin(3))]}
\* props.decor: 0 is any falsy value (off), otherwise a strength
Decors == {0, 1}
\* props.projection: 0 is absent, otherwise one of the functions of Project
Projections == {0, 1}
Props == [decor : Decors, post : Posts, projection : Projections]

\* a rational number n/d, kept unreduced
Rat(n, d) == <<n, d>>

RECURSIVE Gcd(_, _)
Gcd(a, b) == IF b = 0 THEN a ELSE Gcd(b, a % b)

\* props.projection(aspect): the function sees only the ratio w/h (here in
\* lowest terms aw/ah).  A centred crop to half the image, shown at twice
\* the scale.
Project(p, w, h) ==
  LET aw == w \div Gcd(w, h)
      ah == h \div Gcd(w, h)
  IN [toScreen |-> [x |-> 0, y |-> 0, scale |-> 2],
      screenBoundsInImage |->
        [left |-> -aw, right |-> aw, top |-> -ah, bottom |-> ah],
      imageWidth |-> 4 * aw,
      imageHeight |-> 4 * ah]

\* la.js mat4scaleThenTranslate2d(x, y, scale)
mat4scaleThenTranslate2d(x, y, scale) ==
  [i \in Idx |-> IF i \in {1, 6} THEN Fin(scale)
                 ELSE IF i \in {11, 16} THEN Fin(1)
                 ELSE IF i = 13 THEN Fin(x)
                 ELSE IF i = 14 THEN Fin(y)
                 ELSE Fin(0)]

\* what decorStretcher may return: finite stretches, and matrices with one
\* NaN, +Infinity or -Infinity entry
BuilderOutputs ==
  {Scale(g) : g \in 1..MaxGain}
    \cup {Poke(Scale(MaxGain), 1, e) : e \in {NaN, PosInf, NegInf}}

(***************************************************************************)
(* sumsToCov and the mean (part_000:20-26, 132-134).  The numbers of this  *)
(* computation are exact fractions <<numerator, denominator>>, kept in     *)
(* lowest terms with a positive denominator, so that equal values are      *)
(* equal tuples; rounding is left out.                                     *)
(***************************************************************************)
Abs(x) == IF x < 0 THEN -x ELSE x

\* the fraction n/d (d not 0) in lowest terms
Num(n, d) ==
  LET g == Gcd(Abs(n), Abs(d))
      s == IF d < 0 THEN -1 ELSE 1
  IN <<(s * n) \div g, (s * d) \div g>>

\* JavaScript's -, * and / on two such numbers (the divisor not 0)
NumSub(a, b) == Num(a[1] * b[2] - b[1] * a[2], a[2] * b[2])
NumMul(a, b) == Num(a[1] * b[1], a[2] * b[2])
NumDiv(a, b) == Num(a[1] * b[2], a[2] * b[1])

\* render, line 132: sums = (i, j) => pixels[i * 4 + j]
sums(px, i, j) == Num(px[i * 4 + j + 1], 1)

\* matrixFrom(rows, cols, e) of la.js: the matrix whose entry (i, j) is
\* e(i, j); e is given as the function of its values on the indices
matrixFrom(rows, cols, e) ==
  [i \in 0..(rows - 1) |-> [j \in 0..(cols - 1) |-> e[i, j]]]

\* a faulty estimator: the sum of squared deviations is divided by n
sumsToCovBiased(px) ==
  LET s(i, j) == sums(px, i, j)
      n == s(3, 3)
      e == [i \in 0..2, j \in 0..2 |->
             NumDiv(NumSub(s(i, j), NumDiv(NumMul(s(i, 3), s(3, j)), n)), n)]
  IN matrixFrom(3, 3, e)

\* sumsToCov(s), lines 20-26, with s read from the array px
sumsToCov(px) ==
  LET s(i, j) == sums(px, i, j)
      n == s(3, 3)
      e == [i \in 0..2, j \in 0..2 |->
             NumDiv(NumSub(s(i, j), NumDiv(NumMul(s(i, 3), s(3, j)), n)),
                    NumSub(n, Num(1, 1)))]
  IN matrixFrom(3, 3, e)

\* render, line 134: vec3.fromValues(sums(0,3)/sums(3,3), ..., sums(2,3)/sums(3,3))
meansOf(px) ==
  [i \in 0..2 |-> NumDiv(sums(px, i, 3), sums(px, 3, 3))]

\* the positions (i, j), i <= j, of the 4x4 array other than the count's
\* (declared first); then the arrays statSampler.sample may return in a
\* statistics test run: the sums of a symmetric 4x4 matrix, row by row, with
\* its count at (3, 3)
Upper == {i * 4 + j + 1 : i \in 0..3, j \in 0..3} \ {k \in 1..16 : (k - 1) \div 4 > (k - 1) % 4 \/ k = 16}

SymmetricSums ==
  {[k \in 1..16 |->
      LET i == (k - 1) \div 4
          j == (k - 1) % 4
      IN IF k = 16 THEN n
         ELSE IF i <= j THEN u[i * 4 + j + 1] ELSE u[j * 4 + i + 1]] :
     u \in [Upper -> 0..MaxSum], n \in 2..MaxCount}

(***************************************************************************)
(* State.                                                                  *)
(***************************************************************************)
VARIABLES
  pc,                      \* mount progress: "canvas", "camera", "effects", "running"
  props,                   \* propsRef.current: decor, post, projection
  captureRequest,          \* the request captureSignal() will return (0: none, 1: one)
  renderFrame,             \* renderFrame.current is installed
  errors,                  \* what reached errorHandler.onError, in order
  nextFrame,               \* nextFrame.current: the pending-frame slot
  lastFrame,               \* canvasRef's lastFrame
  seenCamera,              \* canvasRef's seenCamera
  lastDecorTransformation, \* canvasRef's lastDecorTransformation
  lastTimestamp,           \* oncePerTimestamp's lastTimestamp
  now,                     \* timestamp of the current animation frame
  rafQueue,                \* callbacks registered for the next animation frame
  inFrame,                 \* the browser is running an animation frame
  frameQueue,              \* callbacks of the current animation frame still to run
  hasRVFC,                 \* the video node has requestVideoFrameCallback
  videoWatch,              \* a requestVideoFrameCallback registration is outstanding
  delivered,               \* camera frames delivered so far
  shown,                   \* the image the video element shows: image k is the one
                           \* the k-th delivered frame describes (0: none yet)
  call,                    \* this animation frame's last call of renderOnce: whether render ran
  tick,                    \* what the render executed in this animation frame did
  lastValid,               \* the last matrix decorStretcher returned with every entry finite
  dirty,                   \* a frame arrived or the configuration changed, and no
                           \* executed render has shown it yet
  requests,                \* scheduler test run: timestamps requested, in order
  runs,                    \* scheduler test run: timestamps render ran with, in order
  pixels,                  \* statistics test run: the array statSampler.sample returned
  cov,                     \* statistics test run: what sumsToCov returned
  means,                   \* statistics test run: the mean render computed
  camera,                  \* camera test run: camera.current, a node (0: undefined)
  registered,              \* camera test run: each node's outstanding frame-callback registrations
  handled,                 \* camera test run: calls of frameHandler.current so far
  acquired                 \* camera test run: calls of getUserMedia so far

vars == <<pc, props, captureRequest, renderFrame, errors,
          nextFrame, lastFrame, seenCamera, lastDecorTransformation, lastTimestamp,
          now, rafQueue, inFrame, frameQueue, hasRVFC, videoWatch, delivered, shown,
          call,
          tick, lastValid, dirty, requests, runs, pixels, cov, means,
          camera, registered, handled, acquired>>

NoCall == [timestamp |-> undefined, ran |-> FALSE]
NoTick == [timestamp |-> undefined]

(***************************************************************************)
(* oncePerTimestamp and render (part_000:29-38, 94-167).                   *)
(***************************************************************************)
\* a faulty test: every timestamp counts as new
ChangedAlways(timestamp, last) == TRUE

\* the test of oncePerTimestamp: timestamp != lastTimestamp
Changed(timestamp, last) == timestamp /= last

\* a faulty claim of the pending frame: the slot is not emptied
TakeFrameKeepSlot(next, last, seen) ==
  IF next /= NoFrame
  THEN [lastFrame |-> next, seenCamera |-> TRUE, nextFrame |-> next,
        uploaded |-> TRUE]
  ELSE [lastFrame |-> last, seenCamera |-> seen, nextFrame |-> next,
        uploaded |-> FALSE]

\* render, lines 98-105: claim the pending frame
TakeFrame(next, last, seen) ==
  IF next /= NoFrame
  THEN [lastFrame |-> next, seenCamera |-> TRUE, nextFrame |-> NoFrame,
        uploaded |-> TRUE]
  ELSE [lastFrame |-> last, seenCamera |-> seen, nextFrame |-> next,
        uploaded |-> FALSE]

\* mat3.create() followed by the translate and scale of lines 116-121,
\* as the translation and the scale it holds
mat3create == [tx |-> Rat(0, 1), ty |-> Rat(0, 1), sx |-> Rat(1, 1), sy |-> Rat(1, 1)]

\* render, lines 107-125: position matrix, sample matrix, displayed size
Placement(projection, frame) ==
  IF projection /= 0
  THEN LET proj == Project(projection, frame.width, frame.height)
           bounds == proj.screenBoundsInImage
       IN [positionMatrix |->
             mat4scaleThenTranslate2d(proj.toScreen.x, proj.toScreen.y,
                                      proj.toScreen.scale),
           sampleMatrix |->
             [tx |-> Rat(proj.imageWidth + 2 * bounds.left, 2 * proj.imageWidth),
              ty |-> Rat(proj.imageHeight + 2 * bounds.top, 2 * proj.imageHeight),
              sx |-> Rat(bounds.right - bounds.left, proj.imageWidth),
              sy |-> Rat(bounds.bottom - bounds.top, proj.imageHeight)],
           displayedWidth |->
             Rat(frame.width * (bounds.right - bounds.left), proj.imageWidth),
           displayedHeight |->
             Rat(frame.height * (bounds.bottom - bounds.top), proj.imageHeight)]
  ELSE [positionMatrix |-> mat4create,
        sampleMatrix |-> mat3create,
        displayedWidth |-> Rat(frame.width, 1),
        displayedHeight |-> Rat(frame.height, 1)]

\* render, line 138: decorTransformation.some(isNaN)
someIsNaN(m) == \E i \in Idx : isNaN(m[i])

\* a faulty decorrelation step: seenCamera is not tested
DecorrelateUnseen(seen, decor, built, held) ==
  IF decor /= 0
  THEN IF someIsNaN(built)
       THEN [sampled |-> TRUE, decorTransformation |-> held, held |-> held]
       ELSE [sampled |-> TRUE, decorTransformation |-> built, held |-> built]
  ELSE [sampled |-> FALSE, decorTransformation |-> mat4create, held |-> held]

\* a faulty decorrelation step: the builder output is held even when it
\* fails the test of line 138
DecorrelateStoreInvalid(seen, decor, built, held) ==
  IF seen /\ decor /= 0
  THEN IF someIsNaN(built)
       THEN [sampled |-> TRUE, decorTransformation |-> held, held |-> built]
       ELSE [sampled |-> TRUE, decorTransformation |-> built, held |-> built]
  ELSE [sampled |-> FALSE, decorTransformation |-> mat4create, held |-> held]

\* render, lines 128-145: the decorrelation transform of the tick and the
\* held transform after it; built is what decorStretcher returns
Decorrelate(seen, decor, built, held) ==
  IF seen /\ decor /= 0
  THEN IF someIsNaN(built)
       THEN [sampled |-> TRUE, decorTransformation |-> held, held |-> held]
       ELSE [sampled |-> TRUE, decorTransformation |-> built, held |-> built]
  ELSE [sampled |-> FALSE, decorTransformation |-> mat4create, held |-> held]

\* a faulty composition: post is applied before any frame was seen
ComposeUnseen(seen, post, decorTransformation) ==
  IF post.on THEN mat4multiply(post.m, decorTransformation)
  ELSE decorTransformation

\* render, lines 127, 129, 147-151: the colour transform handed to display
Compose(seen, post, decorTransformation) ==
  IF seen
  THEN IF post.on THEN mat4multiply(post.m, decorTransformation)
       ELSE decorTransformation
  ELSE mat4create

\* a faulty composition: the product is written into decorTransformation,
\* the array the held transform refers to
HeldAfterComposeInPlace(seen, post, dec) ==
  IF seen /\ post.on THEN mat4multiply(post.m, dec.decorTransformation)
  ELSE dec.held

\* render, lines 138-151: what lastDecorTransformation refers to after the
\* composition.  It refers to the array decorStretcher returned (line 141);
\* mat4.multiply writes the product into colorTransformation, the array of
\* line 127, and line 150 only binds a name, so the held array keeps its
\* entries.
HeldAfterCompose(seen, post, dec) == dec.held

\* render, lines 155-158: the resolution handed to display (0x0: undefined)
Resolution(capture, place) ==
  IF capture /= 0
  THEN [width |-> place.displayedWidth, height |-> place.displayedHeight]
  ELSE [width |-> Rat(0, 1), height |-> Rat(0, 1)]

\* a faulty export: the polled request is dropped
ExportedNever(capture) == 0

\* render, lines 162-166: the capture toBlob is started for (0: none)
Exported(capture) == capture

\* render, line 101: texImage2D(..., nextFrame.current.camera) uploads the
\* image the video element shows when it is called (0: nothing uploaded)
Uploaded(uploaded, showing) == IF uploaded THEN showing ELSE 0

\* the calls of one render, in the order of the code
Events(uploaded, sampled, capture) ==
  (IF uploaded THEN <<"texImage2D">> ELSE <<>>)
    \o (IF sampled THEN <<"sample", "decorStretcher">> ELSE <<>>)
    \o <<"captureSignal", "display">>
    \o (IF Exported(capture) /= 0 THEN <<"toBlob">> ELSE <<>>)

\* props.captureSignal(): returns the application's pending request and
\* clears it
captureSignal(request) == [returned |-> request, left |-> 0]

\* a faulty read: the configuration is fixed when the callback is created
\* and later props are not seen
propsOfClosure(current) == [decor |-> 0, post |-> NoPost, projection |-> 0]

\* render, line 96: propsRef.current, which every call of ContrastScreen
\* sets to its props (line 46)
propsRefCurrent(current) == current

\* render(now), with built the matrix decorStretcher returns if it is called.
\* Each local of the code is bound once, in the order the code computes it.
render(timestamp, built) ==
  \E cfg \in {propsRefCurrent(props)}, taken \in {TakeFrame(nextFrame, lastFrame, seenCamera)} :
  \E place \in {Placement(cfg.projection, taken.lastFrame)},
     dec \in {Decorrelate(taken.seenCamera, cfg.decor, built,
                          lastDecorTransformation)} :
  \E colorTransformation \in
       {Compose(taken.seenCamera, cfg.post, dec.decorTransformation)},
     polled \in {captureSignal(captureRequest)} :
  \E capture \in {polled.returned} :
     /\ nextFrame' = taken.nextFrame
     /\ lastFrame' = taken.lastFrame
     /\ seenCamera' = taken.seenCamera
     /\ lastDecorTransformation'
          = HeldAfterCompose(taken.seenCamera, cfg.post, dec)
     /\ captureRequest' = polled.left
     /\ dirty' = ~(cfg = props /\ taken.nextFrame = NoFrame
                    /\ taken.lastFrame.id = delivered)
     /\ lastValid' = IF dec.sampled /\ AllFinite(built) THEN built ELSE lastValid
     /\ tick' = [timestamp |-> timestamp,
                 cfg |-> cfg,
                 consumed |-> IF taken.uploaded THEN taken.lastFrame ELSE NoFrame,
                 image |-> Uploaded(taken.uploaded, shown),
                 sampled |-> dec.sampled,
                 sampleMatrix |-> place.sampleMatrix,
                 built |-> IF dec.sampled THEN built ELSE mat4create,
                 decorTransformation |-> dec.decorTransformation,
                 colorTransformation |-> colorTransformation,
                 width |-> taken.lastFrame.width,
                 height |-> taken.lastFrame.height,
                 positionMatrix |-> place.positionMatrix,
                 resolution |-> Resolution(capture, place),
                 capture |-> capture,
                 exported |-> Exported(capture),
                 events |-> Events(taken.uploaded, dec.sampled, capture)]

\* a faulty scheduler: lastTimestamp is never stored
renderOnceForgetful(timestamp, built) ==
  IF Changed(timestamp, lastTimestamp)
  THEN /\ lastTimestamp' = lastTimestamp
       /\ render(timestamp, built)
       /\ call' = [timestamp |-> timestamp, ran |-> TRUE]
  ELSE /\ call' = [timestamp |-> timestamp, ran |-> FALSE]
       /\ UNCHANGED <<lastTimestamp, nextFrame, lastFrame, seenCamera,
                      lastDecorTransformation, captureRequest, tick,
                      lastValid, dirty>>

\* a faulty scheduler: render runs on every call
renderOnceAlways(timestamp, built) ==
  /\ lastTimestamp' = timestamp
  /\ render(timestamp, built)
  /\ call' = [timestamp |-> timestamp, ran |-> TRUE]

\* the function oncePerTimestamp returns, called with timestamp
renderOnce(timestamp, built) ==
  IF Changed(timestamp, lastTimestamp)
  THEN /\ lastTimestamp' = timestamp
       /\ render(timestamp, built)
       /\ call' = [timestamp |-> timestamp, ran |-> TRUE]
  ELSE /\ call' = [timestamp |-> timestamp, ran |-> FALSE]
       /\ UNCHANGED <<lastTimestamp, nextFrame, lastFrame, seenCamera,
                      lastDecorTransformation, captureRequest, tick,
                      lastValid, dirty>>

(***************************************************************************)
(* ContrastScreen: mount, requestFrame, onCameraFrame (part_000:41-196).   *)
(***************************************************************************)
\* a faulty requestFrame: nothing is registered
requestFrameNever(installed, queue) == queue

\* requestFrame (lines 172-176): the next frame's callbacks after it
requestFrame(installed, queue) ==
  IF installed THEN Append(queue, "render") ELSE queue

\* canvasRef(node), node not null (lines 54-170).  gl: getContext('webgl2')
\* returned a context; extFloat, extHalf: the extension is available.
canvasRef(gl, extFloat, extHalf) ==
  /\ pc = "canvas"
  /\ pc' = "camera"
  /\ IF ~gl
     THEN \* line 63 throws; errorHandler.wrap reports it; nothing is installed
          /\ errors' = Append(errors, "webgl2")
          /\ UNCHANGED renderFrame
     ELSE \* lines 66-73: bitDepth (16 or 32) goes to the StatSampler only
          /\ errors' = IF ~extFloat /\ ~extHalf
                       THEN Append(errors, "extension") ELSE errors
          /\ renderFrame' = TRUE
  /\ lastFrame' = Placeholder
  /\ seenCamera' = FALSE
  /\ lastDecorTransformation' = mat4create
  /\ lastTimestamp' = undefined
  /\ UNCHANGED <<props, captureRequest, nextFrame, now, rafQueue, inFrame,
                 frameQueue, hasRVFC, videoWatch, delivered, shown, call,
                 tick, lastValid, dirty, requests, runs, pixels, cov,
                 means, camera, registered, handled, acquired>>

\* camRef(node), node not null (camera.js:39-66): the first watch()
camRef(rvfc) ==
  /\ pc = "camera"
  /\ pc' = "effects"
  /\ hasRVFC' = rvfc
  /\ videoWatch' = rvfc
  /\ rafQueue' = IF rvfc THEN rafQueue ELSE Append(rafQueue, "video")
  /\ UNCHANGED <<props, captureRequest, renderFrame, errors, nextFrame,
                 lastFrame, seenCamera, lastDecorTransformation,
                 lastTimestamp, now, inFrame, frameQueue, delivered,
                 shown, call, tick, lastValid, dirty, requests, runs,
                 pixels, cov, means, camera, registered, handled,
                 acquired>>

\* the first run of the effect of line 179
MountEffect ==
  /\ pc = "effects"
  /\ pc' = "running"
  /\ rafQueue' = requestFrame(renderFrame, rafQueue)
  /\ UNCHANGED <<props, captureRequest, renderFrame, errors, nextFrame,
                 lastFrame, seenCamera, lastDecorTransformation,
                 lastTimestamp, now, inFrame, frameQueue, hasRVFC,
                 videoWatch, delivered, shown, call, tick, lastValid,
                 dirty, requests, runs, pixels, cov, means, camera,
                 registered, handled, acquired>>

\* a re-render with other decor, post or projection: line 46, then the
\* effect of line 179
SetProps(p) ==
  /\ pc = "running"
  /\ ~inFrame
  /\ Len(rafQueue) < MaxRaf
  /\ now < MaxTime
  /\ p /= props
  /\ props' = p
  /\ rafQueue' = requestFrame(renderFrame, rafQueue)
  /\ dirty' = TRUE
  /\ UNCHANGED <<pc, captureRequest, renderFrame, errors, nextFrame,
                 lastFrame, seenCamera, lastDecorTransformation,
                 lastTimestamp, now, inFrame, frameQueue, hasRVFC,
                 videoWatch, delivered, shown, call, tick, lastValid,
                 requests, runs, pixels, cov, means, camera, registered,
                 handled, acquired>>

\* the application raises a capture request, which captureSignal() will
\* return
RequestCapture ==
  /\ pc = "running"
  /\ ~inFrame
  /\ now < MaxTime
  /\ captureRequest = 0
  /\ captureRequest' = 1
  /\ UNCHANGED <<pc, props, renderFrame, errors, nextFrame, lastFrame,
                 seenCamera, lastDecorTransformation, lastTimestamp, now,
                 rafQueue, inFrame, frameQueue, hasRVFC, videoWatch,
                 delivered, shown, call, tick, lastValid, dirty, requests,
                 runs, pixels, cov, means, camera, registered, handled,
                 acquired>>

\* a faulty frame handler: no render is requested
onCameraFrameNoRequest(frame, queue) ==
  [nextFrame |-> frame, rafQueue |-> queue]

\* onCameraFrame(now, frame, camera) (lines 181-187): the slot and the
\* next frame's callbacks after it
onCameraFrame(frame, queue) ==
  [nextFrame |-> frame,
   rafQueue |-> requestFrame(renderFrame, queue)]

\* videoFrameCallback fired by requestVideoFrameCallback (camera.js:46-58,
\* 61): the handler, then watch() registers again
VideoFrame(sz) ==
  /\ pc = "running"
  /\ hasRVFC /\ videoWatch
  /\ ~inFrame
  /\ delivered < MaxFrames
  /\ Len(rafQueue) < MaxRaf
  /\ now < MaxTime
  /\ LET got == onCameraFrame(Frame(delivered + 1, sz), rafQueue)
     IN /\ nextFrame' = got.nextFrame
        /\ rafQueue' = got.rafQueue
  /\ delivered' = delivered + 1
  /\ shown' = delivered + 1
  /\ dirty' = TRUE
  /\ videoWatch' = TRUE
  /\ UNCHANGED <<pc, props, captureRequest, renderFrame, errors,
                 lastFrame, seenCamera, lastDecorTransformation,
                 lastTimestamp, now, inFrame, frameQueue, hasRVFC, call,
                 tick, lastValid, requests, runs, pixels, cov, means,
                 camera, registered, handled, acquired>>

\* the video element goes on to its next image; the frame callback for it
\* has not fired yet.  The decoder runs beside the script, so this happens
\* between any two callbacks.
VideoAdvance ==
  /\ pc = "running"
  /\ shown = delivered
  /\ shown' = shown + 1
  /\ UNCHANGED <<pc, props, captureRequest, renderFrame, errors,
                 nextFrame, lastFrame, seenCamera,
                 lastDecorTransformation, lastTimestamp, now, rafQueue,
                 inFrame, frameQueue, hasRVFC, videoWatch, delivered,
                 call, tick, lastValid, dirty, requests, runs, pixels,
                 cov, means, camera, registered, handled, acquired>>

\* the browser starts an animation frame: the registered callbacks will run
\* with one new timestamp
BeginFrame ==
  /\ pc = "running"
  /\ ~inFrame
  /\ rafQueue /= <<>>
  /\ now < MaxTime
  /\ now' = now + 1
  /\ inFrame' = TRUE
  /\ frameQueue' = rafQueue
  /\ rafQueue' = <<>>
  /\ UNCHANGED <<pc, props, captureRequest, renderFrame, errors,
                 nextFrame, lastFrame, seenCamera,
                 lastDecorTransformation, lastTimestamp, hasRVFC,
                 videoWatch, delivered, shown, call, tick, lastValid,
                 dirty, requests, runs, pixels, cov, means, camera,
                 registered, handled, acquired>>

\* the animation frame runs errorHandler.wrap(renderFrame.current) (line 174)
RunRender(built) ==
  /\ inFrame
  /\ frameQueue /= <<>>
  /\ Head(frameQueue) = "render"
  /\ frameQueue' = Tail(frameQueue)
  /\ renderOnce(now, built)
  /\ UNCHANGED <<pc, props, renderFrame, errors, now, rafQueue, inFrame,
                 hasRVFC, videoWatch, delivered, shown, requests, runs,
                 pixels, cov, means, camera, registered, handled,
                 acquired>>

\* the animation frame runs the callback of camera.js:63: videoFrameCallback
\* with the video's size, then watch() registers again
RunVideo(sz) ==
  /\ inFrame
  /\ frameQueue /= <<>>
  /\ Head(frameQueue) = "video"
  /\ frameQueue' = Tail(frameQueue)
  /\ LET got == onCameraFrame(Frame(delivered + 1, sz), rafQueue)
     IN /\ nextFrame' = got.nextFrame
        /\ rafQueue' = Append(got.rafQueue, "video")
  /\ delivered' = delivered + 1
  /\ shown' = delivered + 1
  /\ dirty' = TRUE
  /\ UNCHANGED <<pc, props, captureRequest, renderFrame, errors,
                 lastFrame, seenCamera, lastDecorTransformation,
                 lastTimestamp, now, inFrame, hasRVFC, videoWatch, call,
                 tick, lastValid, requests, runs, pixels, cov, means,
                 camera, registered, handled, acquired>>

\* the animation frame's callbacks have all run
EndFrame ==
  /\ inFrame
  /\ frameQueue = <<>>
  /\ inFrame' = FALSE
  /\ call' = NoCall
  /\ tick' = NoTick
  /\ UNCHANGED <<pc, props, captureRequest, renderFrame, errors,
                 nextFrame, lastFrame, seenCamera,
                 lastDecorTransformation, lastTimestamp, now, rafQueue,
                 frameQueue, hasRVFC, videoWatch, delivered, shown,
                 lastValid, dirty, requests, runs, pixels, cov, means,
                 camera, registered, handled, acquired>>

Init ==
  /\ pc = "canvas"
  /\ props \in Props
  /\ captureRequest = 0
  /\ renderFrame = FALSE
  /\ errors = <<>>
  /\ nextFrame = NoFrame
  /\ lastFrame = Placeholder
  /\ seenCamera = FALSE
  /\ lastDecorTransformation = mat4create
  /\ lastTimestamp = undefined
  /\ now = 0
  /\ rafQueue = <<>>
  /\ inFrame = FALSE
  /\ frameQueue = <<>>
  /\ hasRVFC = FALSE
  /\ videoWatch = FALSE
  /\ delivered = 0
  /\ shown = 0
  /\ call = NoCall
  /\ tick = NoTick
  /\ lastValid = mat4create
  /\ dirty = FALSE
  /\ requests = <<>>
  /\ runs = <<>>
  /\ pixels = <<>>
  /\ cov = <<>>
  /\ means = <<>>
  /\ camera = 0
  /\ registered = <<>>
  /\ handled = 0
  /\ acquired = 0

Next ==
  \/ \E gl \in BOOLEAN, extFloat \in BOOLEAN, extHalf \in BOOLEAN :
       canvasRef(gl, extFloat, extHalf)
  \/ \E rvfc \in BOOLEAN : camRef(rvfc)
  \/ MountEffect
  \/ \E p \in Props : SetProps(p)
  \/ RequestCapture
  \/ \E sz \in Sizes : VideoFrame(sz)
  \/ VideoAdvance
  \/ BeginFrame
  \/ \E built \in BuilderOutputs : RunRender(built)
  \/ \E sz \in Sizes : RunVideo(sz)
  \/ EndFrame

Spec == Init /\ [][Next]_vars

\* the steps the browser and React take on their own: the mount runs to its
\* end, a registered animation-frame callback gets its animation frame, and
\* the callbacks of an animation frame all run.  At most one of them is
\* enabled in a state, and no other step disables it.
Scheduled ==
  \/ \E gl \in BOOLEAN, extFloat \in BOOLEAN, extHalf \in BOOLEAN :
       canvasRef(gl, extFloat, extHalf)
  \/ \E rvfc \in BOOLEAN : camRef(rvfc)
  \/ MountEffect
  \/ BeginFrame
  \/ \E built \in BuilderOutputs : RunRender(built)
  \/ \E sz \in Sizes : RunVideo(sz)
  \/ EndFrame

FairSpec == Spec /\ WF_vars(Scheduled)

(***************************************************************************)
(* A test run of the scheduler alone: renderOnce, freshly created by a     *)
(* successful canvasRef, called directly with any timestamps in any order. *)
(***************************************************************************)
Stamps == 0..MaxStamp

InitSched ==
  /\ pc = "scheduler"
  /\ props \in Props
  /\ captureRequest = 0
  /\ renderFrame = TRUE
  /\ errors = <<>>
  /\ nextFrame = NoFrame
  /\ lastFrame = Placeholder
  /\ seenCamera = FALSE
  /\ lastDecorTransformation = mat4create
  /\ lastTimestamp = undefined
  /\ now = 0
  /\ rafQueue = <<>>
  /\ inFrame = FALSE
  /\ frameQueue = <<>>
  /\ hasRVFC = FALSE
  /\ videoWatch = FALSE
  /\ delivered = 0
  /\ shown = 0
  /\ call = NoCall
  /\ tick = NoTick
  /\ lastValid = mat4create
  /\ dirty = FALSE
  /\ requests = <<>>
  /\ runs = <<>>
  /\ pixels = <<>>
  /\ cov = <<>>
  /\ means = <<>>
  /\ camera = 0
  /\ registered = <<>>
  /\ handled = 0
  /\ acquired = 0

\* one call renderOnce(timestamp)
Request(timestamp, built) ==
  /\ pc = "scheduler"
  /\ Len(requests) < MaxRequests
  /\ renderOnce(timestamp, built)
  /\ requests' = Append(requests, timestamp)
  /\ runs' = IF call'.ran THEN Append(runs, timestamp) ELSE runs
  /\ UNCHANGED <<pc, props, renderFrame, errors, now, rafQueue, inFrame,
                 frameQueue, hasRVFC, videoWatch, delivered, shown,
                 pixels, cov, means, camera, registered, handled,
                 acquired>>

NextSched == \E timestamp \in Stamps, built \in BuilderOutputs : Request(timestamp, built)

SpecSched == InitSched /\ [][NextSched]_vars

(***************************************************************************)
(* A test run of the statistics alone: lines 132-134 of render on an array *)
(* the sampler returned.                                                   *)
(***************************************************************************)
InitCov ==
  /\ pc = "statistics"
  /\ props = [decor |-> 1, post |-> NoPost, projection |-> 0]
  /\ captureRequest = 0
  /\ renderFrame = TRUE
  /\ errors = <<>>
  /\ nextFrame = NoFrame
  /\ lastFrame = Placeholder
  /\ seenCamera = TRUE
  /\ lastDecorTransformation = mat4create
  /\ lastTimestamp = undefined
  /\ now = 0
  /\ rafQueue = <<>>
  /\ inFrame = FALSE
  /\ frameQueue = <<>>
  /\ hasRVFC = FALSE
  /\ videoWatch = FALSE
  /\ delivered = 0
  /\ shown = 0
  /\ call = NoCall
  /\ tick = NoTick
  /\ lastValid = mat4create
  /\ dirty = FALSE
  /\ requests = <<>>
  /\ runs = <<>>
  /\ pixels \in SymmetricSums
  /\ cov = <<>>
  /\ means = <<>>
  /\ camera = 0
  /\ registered = <<>>
  /\ handled = 0
  /\ acquired = 0

\* render, lines 132-134: sums, cov = sumsToCov(sums), then the means
Statistics ==
  /\ pc = "statistics"
  /\ pc' = "computed"
  /\ cov' = sumsToCov(pixels)
  /\ means' = meansOf(pixels)
  /\ UNCHANGED <<props, captureRequest, renderFrame, errors, nextFrame,
                 lastFrame, seenCamera, lastDecorTransformation,
                 lastTimestamp, now, rafQueue, inFrame, frameQueue,
                 hasRVFC, videoWatch, delivered, shown, call, tick,
                 lastValid, dirty, requests, runs, pixels, camera,
                 registered, handled, acquired>>

NextCov == Statistics

SpecCov == InitCov /\ [][NextCov]_vars

(***************************************************************************)
(* A test run of Camera alone (camera.js:17-69): React mounts video nodes  *)
(* one after the other, each a new node, and onFrame is any function: one  *)
(* that returns, one that throws, or none.                                 *)
(***************************************************************************)
Nodes == 1..MaxNodes
Handlers == {"none", "returns", "throws"}

InitCamera ==
  /\ pc = "camera-test"
  /\ props = [decor |-> 0, post |-> NoPost, projection |-> 0]
  /\ captureRequest = 0
  /\ renderFrame = FALSE
  /\ errors = <<>>
  /\ nextFrame = NoFrame
  /\ lastFrame = Placeholder
  /\ seenCamera = FALSE
  /\ lastDecorTransformation = mat4create
  /\ lastTimestamp = undefined
  /\ now = 0
  /\ rafQueue = <<>>
  /\ inFrame = FALSE
  /\ frameQueue = <<>>
  /\ hasRVFC = FALSE
  /\ videoWatch = FALSE
  /\ delivered = 0
  /\ shown = 0
  /\ call = NoCall
  /\ tick = NoTick
  /\ lastValid = mat4create
  /\ dirty = FALSE
  /\ requests = <<>>
  /\ runs = <<>>
  /\ pixels = <<>>
  /\ cov = <<>>
  /\ means = <<>>
  /\ camera = 0
  /\ registered = [node \in Nodes |-> 0]
  /\ handled = 0
  /\ acquired = 0

\* watch() of the camRef call for node (lines 61, 63): on either path one
\* callback is registered, videoFrameCallback of that call
watch(reg, node) == [reg EXCEPT ![node] = @ + 1]

\* camRef(node) for a node that is not null (lines 39-66); React passes a
\* node it has just created
mountVideo(node) ==
  /\ pc = "camera-test"
  /\ node = camera + 1
  /\ camera' = node
  /\ registered' = watch(registered, node)
  /\ UNCHANGED <<pc, props, captureRequest, renderFrame, errors,
                 nextFrame, lastFrame, seenCamera,
                 lastDecorTransformation, lastTimestamp, now, rafQueue,
                 inFrame, frameQueue, hasRVFC, videoWatch, delivered,
                 shown, call, tick, lastValid, dirty, requests, runs,
                 pixels, cov, means, handled, acquired>>

\* the effect of lines 28-36: it runs after the mount and when constraints
\* change
getUserMedia ==
  /\ pc = "camera-test"
  /\ camera /= 0
  /\ acquired < MaxStreams
  /\ acquired' = acquired + 1
  /\ UNCHANGED <<pc, props, captureRequest, renderFrame, errors,
                 nextFrame, lastFrame, seenCamera,
                 lastDecorTransformation, lastTimestamp, now, rafQueue,
                 inFrame, frameQueue, hasRVFC, videoWatch, delivered,
                 shown, call, tick, lastValid, dirty, requests, runs,
                 pixels, cov, means, camera, registered, handled>>

\* a faulty callback: watch() is inside the try block, after the handler
videoFrameCallbackRearmInTry(node, handler) ==
  /\ pc = "camera-test"
  /\ registered[node] > 0
  /\ delivered < MaxCallbacks
  /\ delivered' = delivered + 1
  /\ IF camera /= node
     THEN /\ registered' = [registered EXCEPT ![node] = @ - 1]
          /\ UNCHANGED <<handled, errors>>
     ELSE /\ handled' = IF handler /= "none" THEN handled + 1 ELSE handled
          /\ errors' = IF handler = "throws" THEN Append(errors, "frame") ELSE errors
          /\ registered' = IF handler = "throws"
                           THEN [registered EXCEPT ![node] = @ - 1]
                           ELSE watch([registered EXCEPT ![node] = @ - 1], node)
  /\ UNCHANGED <<pc, props, captureRequest, renderFrame, nextFrame,
                 lastFrame, seenCamera, lastDecorTransformation,
                 lastTimestamp, now, rafQueue, inFrame, frameQueue,
                 hasRVFC, videoWatch, shown, call, tick, lastValid, dirty,
                 requests, runs, pixels, cov, means, camera, acquired>>

\* a faulty callback: camera.current is not compared with node
videoFrameCallbackAnyNode(node, handler) ==
  /\ pc = "camera-test"
  /\ registered[node] > 0
  /\ delivered < MaxCallbacks
  /\ delivered' = delivered + 1
  /\ handled' = IF handler /= "none" THEN handled + 1 ELSE handled
  /\ errors' = IF handler = "throws" THEN Append(errors, "frame") ELSE errors
  /\ registered' = watch([registered EXCEPT ![node] = @ - 1], node)
  /\ UNCHANGED <<pc, props, captureRequest, renderFrame, nextFrame,
                 lastFrame, seenCamera, lastDecorTransformation,
                 lastTimestamp, now, rafQueue, inFrame, frameQueue,
                 hasRVFC, videoWatch, shown, call, tick, lastValid, dirty,
                 requests, runs, pixels, cov, means, camera, acquired>>

\* one registered callback of node fires: videoFrameCallback(now, frame)
\* (lines 46-58).  handler says what frameHandler.current is and does.
videoFrameCallback(node, handler) ==
  /\ pc = "camera-test"
  /\ registered[node] > 0
  /\ delivered < MaxCallbacks
  /\ delivered' = delivered + 1
  /\ IF camera /= node
     THEN \* line 48: return
          /\ registered' = [registered EXCEPT ![node] = @ - 1]
          /\ UNCHANGED <<handled, errors>>
     ELSE \* lines 50-57: the handler, the catch, then watch()
          /\ handled' = IF handler /= "none" THEN handled + 1 ELSE handled
          /\ errors' = IF handler = "throws" THEN Append(errors, "frame") ELSE errors
          /\ registered' = watch([registered EXCEPT ![node] = @ - 1], node)
  /\ UNCHANGED <<pc, props, captureRequest, renderFrame, nextFrame,
                 lastFrame, seenCamera, lastDecorTransformation,
                 lastTimestamp, now, rafQueue, inFrame, frameQueue,
                 hasRVFC, videoWatch, shown, call, tick, lastValid, dirty,
                 requests, runs, pixels, cov, means, camera, acquired>>

NextCamera ==
  \/ \E node \in Nodes : mountVideo(node)
  \/ getUserMedia
  \/ \E node \in Nodes, handler \in Handlers : videoFrameCallback(node, handler)

SpecCamera == InitCamera /\ [][NextCamera]_vars

(***************************************************************************)
(* Properties.                                                             *)
(***************************************************************************)
\* a render has executed in the current animation frame (or test run)
Ran == tick.timestamp /= undefined

\* the step is a call of renderOnce in which render executes; the builder
\* output of the step is the one its record names
ExecutedRender ==
  /\ inFrame /\ frameQueue /= <<>>
  /\ Changed(now, lastTimestamp)
  /\ tick'.timestamp = now
  /\ tick'.built \in BuilderOutputs
  /\ RunRender(tick'.built)

Occurrences(seq, x) == Cardinality({i \in DOMAIN seq : seq[i] = x})
Range(seq) == {seq[i] : i \in DOMAIN seq}
IndexOf(seq, x) == CHOOSE i \in DOMAIN seq : seq[i] = x

\* seq without the elements that equal their predecessor
RECURSIVE Collapse(_)
Collapse(seq) ==
  IF Len(seq) <= 1 THEN seq
  ELSE LET front == SubSeq(seq, 1, Len(seq) - 1)
       IN IF seq[Len(seq)] = seq[Len(seq) - 1]
          THEN Collapse(front)
          ELSE Append(Collapse(front), seq[Len(seq)])

NonDecreasing(seq) ==
  \A i \in DOMAIN seq : \A j \in DOMAIN seq : i <= j => seq[i] <= seq[j]

AtMostOncePerTimestamp == \A t \in Stamps : Occurrences(runs, t) <= 1

\* C1 as stated: over any sequence of requests through the scheduler, render
\* runs at most once for any timestamp value, whatever was requested in
\* between.
C1_AtMostOnceWhateverBetween == AtMostOncePerTimestamp

\* C1 amended: a request is a no-op exactly when its timestamp equals that of
\* the request just before it, so render runs once per run of consecutive
\* equal timestamps; over non-decreasing timestamps that is at most once per
\* timestamp value.
C1_OncePerConsecutiveRun ==
  /\ runs = Collapse(requests)
  /\ NonDecreasing(requests) => AtMostOncePerTimestamp

\* C1 witness: a timestamp was requested twice in a row and ran once, with
\* another timestamp requested after it.
C1_Witness ==
  /\ Len(requests) = 3
  /\ requests[1] = requests[2]
  /\ requests[3] /= requests[2]
  /\ Len(runs) = 2

\* C2: on a fresh scheduler two requests with one timestamp give exactly one
\* run of render, and two requests with distinct timestamps give exactly two.
C2_TwoRequests ==
  Len(requests) = 2 =>
    /\ requests[1] = requests[2] => runs = <<requests[1]>>
    /\ requests[1] /= requests[2] => runs = <<requests[1], requests[2]>>

\* C2 witness: two requests with the same timestamp, one run.
C2_Witness == Len(requests) = 2 /\ requests[1] = requests[2] /\ Len(runs) = 1

\* C3 as stated: whenever a frame has arrived or the configuration has
\* changed, a render eventually executes that takes the latest frame and
\* uses the latest configuration (or the model's clock has run out).
C3_NoRenderDropped == dirty ~> (~dirty \/ now = MaxTime)

\* C3 amended: the same, once canvasRef has installed the render function.
C3_NoRenderDroppedOnceInstalled ==
  (renderFrame /\ dirty) ~> (~dirty \/ now = MaxTime)

\* C3 witness: a render has executed that took a delivered frame and left
\* nothing to show, while a second request of the same animation frame is
\* still to be suppressed.
C3_Witness ==
  /\ Ran /\ ~dirty
  /\ tick.consumed.id >= 1
  /\ frameQueue /= <<>> /\ Head(frameQueue) = "render"

\* C4: a delivery overwrites the slot with the newest frame; an executed
\* render promotes exactly the frame in the slot, which is the most recently
\* delivered one, and empties the slot; no other frame is ever promoted.
C4_LatestWinsMailbox ==
  [][/\ (nextFrame' /= nextFrame /\ nextFrame' /= NoFrame)
          => nextFrame'.id = delivered'
     /\ ExecutedRender =>
          /\ nextFrame' = NoFrame
          /\ nextFrame /= NoFrame => (lastFrame' = nextFrame /\ tick'.consumed = nextFrame)
          /\ nextFrame = NoFrame => (lastFrame' = lastFrame /\ tick'.consumed = NoFrame)
     /\ lastFrame' /= lastFrame => (ExecutedRender /\ lastFrame'.id = delivered)
    ]_vars

\* C4 witness: two frames were delivered before the first animation frame,
\* and its render promoted the second.
C4_Witness ==
  /\ now = 1 /\ delivered = 2
  /\ Ran /\ tick.consumed.id = 2 /\ lastFrame.id = 2 /\ nextFrame = NoFrame

\* C5 as stated: the decorrelation transform of every executed render, the
\* colour transform handed to display when post is absent or finite, and the
\* held transform hold no NaN and no Infinity, whatever decorStretcher
\* returned.
C5_AlwaysFinite ==
  /\ AllFinite(lastDecorTransformation)
  /\ Ran =>
       /\ AllFinite(tick.decorTransformation)
       /\ (~tick.cfg.post.on \/ AllFinite(tick.cfg.post.m))
            => AllFinite(tick.colorTransformation)

\* C6 as stated: in a render with decor on, a frame seen and a builder
\* output that is not finite, the transform used is the output of the most
\* recent render whose builder output was finite (identity if there was
\* none).
C6_HoldLastValid ==
  (Ran /\ tick.sampled /\ ~AllFinite(tick.built))
    => tick.decorTransformation = lastValid

\* C7: statSampler.sample and decorStretcher are called only by a render
\* that runs with a camera frame already taken (by it or an earlier render)
\* and with decor on.
C7_NoSamplingBeforeFirstFrame ==
  Ran =>
    /\ (tick.sampled \/ "sample" \in Range(tick.events)
          \/ "decorStretcher" \in Range(tick.events))
         => (seenCamera /\ lastFrame.id >= 1 /\ tick.cfg.decor /= 0)
    /\ lastFrame.id = 0 => ~seenCamera

\* C7 witness: the render that took the first camera frame sampled.
C7_Witness ==
  /\ Ran /\ tick.sampled /\ "sample" \in Range(tick.events)
  /\ tick.consumed.id = 1 /\ delivered = 1

\* C8 as stated: every render executed before a camera frame has been taken
\* hands display the identity colour transform, the identity position
\* transform and the size 1x1, whatever decor, post and projection are.
C8_PlaceholderAllIdentity ==
  (Ran /\ ~seenCamera) =>
    /\ tick.colorTransformation = mat4create
    /\ tick.positionMatrix = mat4create
    /\ tick.width = 1 /\ tick.height = 1

\* C8 amended: such a render hands display the identity colour transform and
\* the size 1x1 whatever decor, post and projection are; the position
\* transform is the identity when projection is absent, and otherwise the
\* one built from projection(1/1).
C8_PlaceholderIdentityColour ==
  (Ran /\ ~seenCamera) =>
    /\ tick.colorTransformation = mat4create
    /\ tick.width = 1 /\ tick.height = 1
    /\ tick.cfg.projection = 0 => tick.positionMatrix = mat4create
    /\ tick.cfg.projection /= 0 =>
         LET proj == Project(tick.cfg.projection, 1, 1)
         IN tick.positionMatrix =
              mat4scaleThenTranslate2d(proj.toScreen.x, proj.toScreen.y,
                                       proj.toScreen.scale)

\* C8 witness: a render before any camera frame, with decor, post and
\* projection all set.
C8_Witness ==
  /\ Ran /\ ~seenCamera
  /\ tick.cfg.decor /= 0 /\ tick.cfg.post.on /\ tick.cfg.projection /= 0

\* C9 as stated: when neither float extension is available the error is
\* reported once and the pipeline does not start: no render function is
\* installed and no render ever executes.
C9_NoPipelineWithoutExtension ==
  "extension" \in Range(errors) =>
    /\ Len(errors) = 1
    /\ ~renderFrame
    /\ ~Ran

\* C10: an executed render polls captureSignal exactly once; it starts an
\* export exactly when the poll returned a request, after its display call,
\* and the request is then cleared, so that the next export needs a new
\* request; a suppressed call neither polls nor exports.
C10_CaptureOneShot ==
  [][/\ ExecutedRender =>
          /\ Occurrences(tick'.events, "captureSignal") = 1
          /\ tick'.capture = captureRequest
          /\ captureRequest' = 0
          /\ tick'.exported = captureRequest
          /\ ("toBlob" \in Range(tick'.events)) <=> (captureRequest /= 0)
          /\ captureRequest /= 0 =>
               /\ IndexOf(tick'.events, "display") < IndexOf(tick'.events, "toBlob")
               /\ Occurrences(tick'.events, "toBlob") = 1
     /\ ~ExecutedRender =>
          /\ (captureRequest' = captureRequest \/ captureRequest = 0)
          /\ (tick' = tick \/ tick' = NoTick)
    ]_vars

\* C10 witness: a render whose poll returned a request exported it, in an
\* animation frame after one whose render exported nothing.
C10_Witness ==
  /\ Ran /\ tick.capture /= 0 /\ tick.exported /= 0
  /\ "toBlob" \in Range(tick.events)
  /\ captureRequest = 0 /\ now >= 2

\* the step is the arrival of a camera frame (videoFrameCallback calls
\* onCameraFrame), on either path of camera.js
Arrival == \E sz \in Sizes : VideoFrame(sz) \/ RunVideo(sz)

\* the step is a re-render with other decor, post or projection
ConfigChange == \E p \in Props : SetProps(p)

\* render callbacks registered for the next animation frame
Renders(queue) == Occurrences(queue, "render")

\* C11 as stated: every camera-frame arrival and every change of decor, post
\* or projection registers an animation-frame callback that runs the
\* scheduler, in every reachable state.
C11_RequestedAlways ==
  [][(Arrival \/ ConfigChange) => Renders(rafQueue') = Renders(rafQueue) + 1]_vars

\* C11 amended: an arrival or a configuration change registers exactly one
\* such callback when canvasRef has installed the render function, and none
\* when it has not; the arriving frame is written to the slot either way.
C11_RequestedWhenInstalled ==
  [][/\ (Arrival \/ ConfigChange) =>
          Renders(rafQueue') = Renders(rafQueue) + (IF renderFrame THEN 1 ELSE 0)
     /\ Arrival => (nextFrame' /= NoFrame /\ nextFrame'.id = delivered')
    ]_vars

\* C11 witness: with the render function installed, a frame arrived before
\* the first animation frame, and its request stands beside the mount's.
C11_Witness ==
  /\ renderFrame /\ hasRVFC /\ now = 0
  /\ delivered = 1 /\ nextFrame.id = 1
  /\ rafQueue = <<"render", "render">>

C13_SnapshotAtExecution ==
  [][ExecutedRender =>
       /\ tick'.cfg = props /\ props' = props
       /\ Occurrences(tick'.events, "captureSignal") = 1
       /\ tick'.capture = captureRequest
       /\ tick'.positionMatrix
            = Placement(props.projection, lastFrame').positionMatrix
       /\ tick'.sampleMatrix
            = Placement(props.projection, lastFrame').sampleMatrix
       /\ tick'.sampled = (seenCamera' /\ props.decor /= 0)
       /\ tick'.colorTransformation
            = Compose(seenCamera', props.post, tick'.decorTransformation)
    ]_vars

\* C13 witness: in the first animation frame, with no camera frame
\* delivered, the callback the mount registered has run render and one more
\* render callback is waiting: that one was registered by a configuration
\* change, so the render was requested under one configuration and executed
\* under another, the one it used.
C13_Witness ==
  /\ now = 1 /\ delivered = 0 /\ hasRVFC
  /\ inFrame /\ Ran /\ call.ran
  /\ frameQueue = <<"render">>
  /\ tick.cfg = props

\* the sums as integers: entry (i, j) of the sampled array
S(i, j) == pixels[i * 4 + j + 1]

\* C14: for a symmetric array of sums with count n = s(3,3) > 1, sumsToCov
\* returns a symmetric 3x3 matrix whose entry (i, j) is
\* (s(i,j) - s(i,3)*s(3,j)/n)/(n-1), stated here without division as
\* cov[i][j] * n*(n-1) = n*s(i,j) - s(i,3)*s(3,j); and the mean of render is
\* s(i,3)/n in each component, stated as means[i] * n = s(i,3).
C14_CovarianceAndMean ==
  (pc = "computed" /\ S(3, 3) > 1) =>
    LET n == S(3, 3)
    IN /\ DOMAIN cov = 0..2
       /\ \A i \in 0..2 : DOMAIN cov[i] = 0..2
       /\ \A i \in 0..2, j \in 0..2 :
            /\ cov[i][j] = cov[j][i]
            /\ cov[i][j][2] > 0
            /\ cov[i][j][1] * (n * (n - 1))
                 = cov[i][j][2] * (n * S(i, j) - S(i, 3) * S(3, j))
       /\ \A i \in 0..2 :
            /\ means[i][2] > 0
            /\ means[i][1] * n = means[i][2] * S(i, 3)

\* C14 witness: the statistics of an array with three samples, unequal sums
\* in the colour channels and an off-diagonal covariance that is not zero.
C14_Witness ==
  /\ pc = "computed" /\ S(3, 3) = 3
  /\ S(0, 3) /= S(1, 3)
  /\ cov[0][1] /= Num(0, 1) /\ cov[0][1] = cov[1][0]
  /\ means[0] = Num(1, 3)

\* the step is a frame callback of the current camera node whose handler
\* throws
ThrowingCallback == camera /= 0 /\ videoFrameCallback(camera, "throws")

\* C15: when the frame handler throws in a frame callback, the error is
\* reported to the error handler exactly once, the watch is registered again
\* (so that the node has its one registration after the callback as before
\* it), and getUserMedia is not called; the handler is called again by a
\* later callback.
C15_ThrowReportedAndRearmed ==
  [][/\ ThrowingCallback =>
          /\ errors' = Append(errors, "frame")
          /\ registered'[camera] = registered[camera]
          /\ registered'[camera] >= 1
          /\ handled' = handled + 1
          /\ acquired' = acquired
          /\ camera' = camera
     /\ Len(errors') > Len(errors) => ThrowingCallback
     /\ acquired' /= acquired => getUserMedia
    ]_vars

\* C15 witness: the handler threw in the first callback, the error stands
\* reported once, and the next callback called the handler again.
C15_Witness ==
  /\ pc = "camera-test"
  /\ errors = <<"frame">> /\ delivered = 2 /\ handled = 2
  /\ camera = 1 /\ registered[1] = 1

\* the step is a call of renderOnce with the timestamp of the call before it
SuppressedRender ==
  /\ \E built \in BuilderOutputs : RunRender(built)
  /\ now = lastTimestamp

\* C16: a request the scheduler suppresses changes nothing: the slot, the
\* current frame, the seen-camera flag, the held transform and the pending
\* capture request stay as they are, and the record of what the animation
\* frame's render did gains no upload, no draw call and no captureSignal
\* poll; a frame that arrived after the render of this timestamp is still in
\* the slot afterwards.
C16_SuppressedChangesNothing ==
  [][SuppressedRender =>
       /\ nextFrame' = nextFrame
       /\ lastFrame' = lastFrame
       /\ seenCamera' = seenCamera
       /\ lastDecorTransformation' = lastDecorTransformation
       /\ lastTimestamp' = lastTimestamp
       /\ captureRequest' = captureRequest
       /\ tick' = tick
       /\ call' = [timestamp |-> now, ran |-> FALSE]
    ]_vars

\* C16 witness: in one animation frame render executed, then a camera frame
\* arrived, then a second request was suppressed, and the frame is still in
\* the slot.
C16_Witness ==
  /\ inFrame /\ Ran /\ tick.timestamp = now
  /\ call = [timestamp |-> now, ran |-> FALSE]
  /\ nextFrame /= NoFrame /\ nextFrame.id = delivered
  /\ lastFrame.id < nextFrame.id

\* C17 as stated: the image a render uploads to the texture is the image of
\* the frame whose width and height it promotes to current frame, also when
\* the video element went on to a newer image after the frame was delivered.
C17_UploadMatchesMetadata ==
  (Ran /\ tick.consumed /= NoFrame) => tick.image = tick.consumed.id

\* the tick of the step falls back on the held transform
FallbackRender ==
  ExecutedRender /\ tick'.sampled /\ someIsNaN(tick'.built)

\* C18: post never enters the held transform.  The held transform is always
\* a matrix as decorStretcher returns it, or the identity; an executed
\* render leaves it or replaces it by its own builder output; and a render
\* that falls back hands display post times the held transform, with the
\* post of its own configuration applied once (the held transform itself
\* when post is absent).
C18_PostNeverHeld ==
  /\ [](lastDecorTransformation \in BuilderOutputs \cup {mat4create})
  /\ [][/\ ExecutedRender =>
             lastDecorTransformation' \in {lastDecorTransformation, tick'.built}
        /\ FallbackRender =>
             /\ lastDecorTransformation' = lastDecorTransformation
             /\ tick'.decorTransformation = lastDecorTransformation
             /\ tick'.colorTransformation =
                  IF props.post.on
                  THEN mat4multiply(props.post.m, lastDecorTransformation)
                  ELSE lastDecorTransformation
       ]_vars

\* C18 witness: a render with post present fell back on a held transform
\* that an earlier render had stored, and handed display post times it.
C18_Witness ==
  /\ Ran /\ tick.sampled /\ someIsNaN(tick.built) /\ tick.cfg.post.on
  /\ lastDecorTransformation = Scale(MaxGain)
  /\ tick.colorTransformation = mat4multiply(tick.cfg.post.m, Scale(MaxGain))
  /\ tick.colorTransformation /= lastDecorTransformation

\* the step is a frame callback of node firing
Fires(node) == \E handler \in Handlers : videoFrameCallback(node, handler)

\* C19: a node never has more than one frame callback registered, and a
\* node not yet mounted has none; a callback of the current camera node
\* leaves the node with exactly one registration again, calling the handler
\* at most once; a callback of a node that is no longer the current one
\* calls no handler, reports nothing and registers nothing, and a replaced
\* node without a registration never gets one again.
C19_OneWatchPerNode ==
  /\ [](\A node \in Nodes :
          /\ registered[node] <= 1
          /\ node > camera => registered[node] = 0)
  /\ [][\A node \in Nodes :
          /\ (Fires(node) /\ camera = node) =>
               /\ registered'[node] = 1
               /\ handled' \in {handled, handled + 1}
          /\ (Fires(node) /\ camera /= node) =>
               /\ registered'[node] = 0
               /\ handled' = handled
               /\ errors' = errors
          /\ (node /= camera' /\ registered[node] = 0) => registered'[node] = 0
       ]_vars

\* C19 witness: node 1 was replaced by node 2, the callback node 1 had
\* registered has fired and registered nothing, and node 2 has delivered a
\* frame to the handler and holds its one registration.
C19_Witness ==
  /\ pc = "camera-test"
  /\ camera = 2 /\ registered[1] = 0 /\ registered[2] = 1
  /\ delivered = 3 /\ handled = 2 /\ errors = <<>>

====
